---- MODULE Spec2Model ----
(***************************************************************************)
(* Trade ledger and pending-order settlement of src/main.py.               *)
(*                                                                         *)
(* The ledger is the `transactions` table of portfolio.db.  Every browser  *)
(* session runs the script top to bottom in its own thread: first          *)
(* update_pending_orders() (the sweep), then the selected page, which on   *)
(* the Trade page may call record_trade() (the submit).  Sessions share    *)
(* the SQLite file, so their steps interleave at statement granularity:    *)
(* a SELECT, an UPDATE, a COMMIT are each one step.                        *)
(*                                                                         *)
(* Money is counted in units of 0.005 rupee, so the 0.01 tolerance of      *)
(* record_trade is 2 units; the time of day is HHMM.  A quantity argument  *)
(* is counted in halves until int() has parsed it.  CURRENT_TIMESTAMP is   *)
(* the second of the wall clock; a row's timestamp decides nothing but the *)
(* order of the history page.                                              *)
(***************************************************************************)
EXTENDS Integers, Sequences, FiniteSets

\* ------------------------------------------------------------------ bounds
\* the ledger holds at most MaxRows rows
MaxRows == 2
\* two browser sessions; only the sessions of Traders place orders
Sessions == {1, 2}
Traders == {1}
Symbols == {"TCS", "INFY"}
Actions == {"BUY", "SELL"}
QuantityInputs == {0, 1, 2}
\* the market price shown when the order is placed, the bids, the later quotes
RefPrices == {3}
BidPrices == {1, 2, 3, 5}
QuotePrices == {1, 3}
\* clock readings of a sweep, one minute before the close and at the close
Times == {1529, 1530}
\* record_trade called with any numbers: at most SoloRows rows of one symbol,
\* quantities 0, 1 and 1.5 (in halves), prices and bids that may be negative,
\* while the wall clock advances by at most MaxClock seconds
SoloRows == 3
SoloSymbols == {"TCS"}
RawQuantities == {0, 2, 3}
SoloRefPrices == {-3, 3}
SoloBidPrices == {-1, 1, 3}
MaxClock == 1
\* the orders placed while every PENDING order is followed to its settlement
LiveRawQuantities == {2}
LiveBidPrices == {1, 3, 5}
\* the stored ledgers fetch_holdings is applied to: at most HoldingsRows rows
\* of two users
HoldingsRows == 2
Users == {"admin", "guest"}
Lots == {[quantity |-> 1, price |-> 1], [quantity |-> 2, price |-> 3]}
Statuses == {"PENDING", "EXECUTED", "CANCELLED"}
\* the tables init_db may find: at most SchemaRows rows
SchemaRows == 2

\* ------------------------------------------------------- program constants
Tol == 2
MarketClose == 1530
Admin == "admin"

NoArgs ==
    [stock_symbol |-> "", action |-> "", raw |-> 0, quantity |-> 0, price |-> 0,
     bid_price |-> 0]
\* the value of a column added without a default
Null == "NULL"
Unavailable == [ok |-> FALSE, lastPrice |-> 0]
Quotes == {Unavailable} \cup {[ok |-> TRUE, lastPrice |-> p] : p \in QuotePrices}

\* the columns of CREATE TABLE and the two columns the migration adds
BaseCols == {"id", "username", "stock_symbol", "action", "quantity", "price", "total",
             "timestamp"}
AllCols == BaseCols \cup {"bid_price", "status"}

VARIABLES
    ledger,      \* the transactions table, a sequence of rows; row i has id i
    lock,        \* the sessions holding SQLite's write lock: {} or one session
    pc,          \* per session: position in the script run
    df_pending,  \* per session: the rows read by the sweep's SELECT
    now,         \* per session: the sweep's clock reading
    idx,         \* per session: position of the sweep's loop in df_pending
    last,        \* per session: what nse_eq answered for the row just handled
    tx,          \* per session: the UPDATEs executed and not yet committed
    args,        \* per session: the arguments of the record_trade call
    result,      \* per session: what record_trade showed the user
    clock,       \* the second CURRENT_TIMESTAMP returns
    shown,       \* what the Portfolio or Transaction History page displays
    cols,        \* the columns of the transactions table, {} without a table
    warnings     \* the columns whose migration the last init_db warned about

vars == <<ledger, lock, pc, df_pending, now, idx, last, tx, args, result,
          clock, shown, cols, warnings>>
sweepVars == <<df_pending, now, idx, last, tx>>
schemaVars == <<cols, warnings>>

\* nothing displayed: the script run has not reached a page that reads the ledger
NoPage == [page |-> "none", username |-> "", frame |-> <<>>]

Abs(x) == IF x < 0 THEN -x ELSE x

\* ------------------------------------------------------------- the ledger
RECURSIVE SumSeq(_)
SumSeq(s) == IF s = <<>> THEN 0 ELSE Head(s) + SumSeq(Tail(s))

\* WHERE username=?
SelectByUser(db, username) == SelectSeq(db, LAMBDA r : r.username = username)

Permutations(n) ==
    {p \in [1..n -> 1..n] : \A i, j \in 1..n : i # j => p[i] # p[j]}

\* ORDER BY timestamp DESC: SQL leaves the order of rows of equal timestamp
\* open, so the query may return any of these frames
OrderByTimestampDesc(rows) ==
    LET n == Len(rows)
        sorted == {p \in Permutations(n) :
                      \A i \in 1..(n - 1) :
                          rows[p[i]].timestamp >= rows[p[i + 1]].timestamp}
    IN  {[i \in 1..n |-> rows[p[i]]] : p \in sorted}

\* SELECT * FROM transactions WHERE username=? ORDER BY timestamp DESC:
\* the frames the query may return
fetch_transactions(db, username) == OrderByTimestampDesc(SelectByUser(db, username))

IsNotCancelled(r) == r.status # "CANCELLED"

\* df[df["status"] == "EXECUTED"] if "status" in df.columns else df
IsExecuted(r) == IF "status" \in DOMAIN r THEN r.status = "EXECUTED" ELSE TRUE
IsBuy(r) == r.action = "BUY"

qty_signed(row) == IF row.action = "BUY" THEN row.quantity ELSE -row.quantity

BuyCost(r) == r.quantity * r.price
BuyQty(r) == r.quantity

\* the holdings frame of a transactions frame: one entry per symbol with an
\* EXECUTED row; the frame without columns that fetch_holdings returns early
\* is the empty function
GroupByStockSymbol(df) ==
    LET df_exec == SelectSeq(df, IsExecuted)
        syms == {df_exec[i].stock_symbol : i \in 1..Len(df_exec)}
    IN  [s \in syms |->
            LET x == SelectSeq(df_exec, LAMBDA r : r.stock_symbol = s)
                buys == SelectSeq(x, IsBuy)
            IN  [Quantity |-> SumSeq([i \in 1..Len(x) |-> qty_signed(x[i])]),
                 BuyCost |-> SumSeq([i \in 1..Len(buys) |-> BuyCost(buys[i])]),
                 BuyQty |-> SumSeq([i \in 1..Len(buys) |-> BuyQty(buys[i])])]]

\* the "Avg Price" cell of a holdings entry, as a fraction
AvgPrice(h) ==
    IF h.BuyQty # 0 THEN [num |-> h.BuyCost, den |-> h.BuyQty]
    ELSE [num |-> 0, den |-> 1]

\* the holdings frames fetch_holdings may return, one per frame the query may
\* return
fetch_holdings(db, username) ==
    {GroupByStockSymbol(df) : df \in fetch_transactions(db, username)}

\* ------------------------------------------------------------ record_trade
ExceedsOffByOne(quantity, current_qty) == quantity > current_qty + 1

Exceeds(quantity, current_qty) == quantity > current_qty

\* int(quantity) of a number given in halves: truncation toward zero
ParseInt(raw) == IF raw >= 0 THEN raw \div 2 ELSE -((-raw) \div 2)

\* what record_trade decides before it opens its transaction, holdings being
\* the frame fetch_holdings returned
CheckTrade(holdings, a) ==
    IF a.quantity <= 0 THEN "InvalidInput"
    ELSE IF a.action = "SELL"
    THEN IF DOMAIN holdings = {} THEN "KeyError"
         ELSE IF a.stock_symbol \notin DOMAIN holdings THEN "InsufficientHoldings"
         ELSE IF Exceeds(a.quantity, holdings[a.stock_symbol].Quantity)
         THEN "InsufficientHoldings"
         ELSE "ok"
    ELSE "ok"

StatusLoose(price, bid_price) ==
    IF Abs(price - bid_price) <= Tol THEN "EXECUTED" ELSE "PENDING"

InitialStatus(price, bid_price) ==
    IF Abs(price - bid_price) < Tol THEN "EXECUTED" ELSE "PENDING"

NewRow(db, a) ==
    [id |-> Len(db) + 1,
     username |-> Admin,
     stock_symbol |-> a.stock_symbol,
     action |-> a.action,
     quantity |-> a.quantity,
     price |-> a.price,
     total |-> a.quantity * a.price,
     bid_price |-> a.bid_price,
     status |-> InitialStatus(a.price, a.bid_price),
     timestamp |-> clock]

InsertOrReplace(db, a) ==
    IF db = <<>> THEN <<NewRow(db, a)>>
    ELSE [db EXCEPT ![Len(db)] = [NewRow(db, a) EXCEPT !.id = Len(db)]]

InsertRow(db, a) == Append(db, NewRow(db, a))

Inflight == Cardinality({s \in Sessions : pc[s] = "insert"})

\* record_trade up to the INSERT, called with arguments from the given sets
\* while the ledger has room for maxRows rows: the parsing, the validation and
\* the holdings check.  A KeyError leaves record_trade as a raw exception and
\* ends the script run.
SubmitFrom(s, maxRows, syms, raws, refs, bids) ==
    /\ pc[s] = "page"
    /\ s \in Traders
    /\ \E sym \in syms, act \in Actions, raw \in raws, p \in refs, b \in bids,
          holdings \in fetch_holdings(ledger, Admin) :
          LET a == [stock_symbol |-> sym, action |-> act, raw |-> raw,
                    quantity |-> ParseInt(raw), price |-> p, bid_price |-> b]
              check == CheckTrade(holdings, a)
          IN  /\ args' = [args EXCEPT ![s] = a]
              /\ IF check = "ok"
                 THEN /\ Len(ledger) + Inflight < maxRows
                      /\ pc' = [pc EXCEPT ![s] = "insert"]
                      /\ UNCHANGED result
                 ELSE /\ pc' = [pc EXCEPT ![s] =
                                   IF check = "KeyError" THEN "raised" ELSE "done"]
                      /\ result' = [result EXCEPT ![s] = check]
    /\ UNCHANGED <<ledger, lock, sweepVars, clock, shown, schemaVars>>

\* the Trade page's call: the number inputs give whole quantities
Submit(s) ==
    SubmitFrom(s, MaxRows, Symbols, {2 * q : q \in QuantityInputs}, RefPrices, BidPrices)

\* record_trade's BEGIN, INSERT and COMMIT, which wait for the write lock
Insert(s) ==
    /\ pc[s] = "insert"
    /\ lock = {}
    /\ ledger' = InsertRow(ledger, args[s])
    /\ result' = [result EXCEPT ![s] =
                     IF InitialStatus(args[s].price, args[s].bid_price) = "PENDING"
                     THEN "Pending" ELSE "Executed"]
    /\ pc' = [pc EXCEPT ![s] = "done"]
    /\ args' = [args EXCEPT ![s] = NoArgs]
    /\ UNCHANGED <<lock, sweepVars, clock, shown, schemaVars>>

\* the page renders without a trade
Render(s) ==
    /\ pc[s] = "page"
    /\ pc' = [pc EXCEPT ![s] = "idle"]
    /\ UNCHANGED <<ledger, lock, sweepVars, args, result, clock, shown, schemaVars>>

\* the next script run of the session
Rerun(s) ==
    /\ pc[s] \in {"done", "raised"}
    /\ pc' = [pc EXCEPT ![s] = "idle"]
    /\ args' = [args EXCEPT ![s] = NoArgs]
    /\ result' = [result EXCEPT ![s] = "none"]
    /\ UNCHANGED <<ledger, lock, sweepVars, clock, shown, schemaVars>>

\* ---------------------------------------------------- update_pending_orders
IsPending(r) == r.status = "PENDING"

\* SELECT * FROM transactions WHERE status='PENDING'
SelectPending(db) == SelectSeq(db, IsPending)

SweepBegin(s) ==
    /\ pc[s] = "idle"
    /\ LET df == SelectPending(ledger)
       IN  \E t \in Times :
              IF df = <<>>
              THEN /\ pc' = [pc EXCEPT ![s] = "page"]
                   /\ UNCHANGED sweepVars
              ELSE /\ pc' = [pc EXCEPT ![s] = "loop"]
                   /\ df_pending' = [df_pending EXCEPT ![s] = df]
                   /\ now' = [now EXCEPT ![s] = t]
                   /\ idx' = [idx EXCEPT ![s] = 1]
                   /\ UNCHANGED <<last, tx>>
    /\ shown' = NoPage
    /\ UNCHANGED <<ledger, lock, args, result, clock, schemaVars>>

BidMetStrict(row, current_price) ==
    \/ row.action = "BUY" /\ current_price < row.bid_price
    \/ row.action = "SELL" /\ current_price > row.bid_price

BidMet(row, current_price) ==
    \/ row.action = "BUY" /\ current_price <= row.bid_price
    \/ row.action = "SELL" /\ current_price >= row.bid_price

AfterCloseStrict(t) == t > MarketClose

AfterClose(t) == t >= MarketClose

NoStmt(row) == [kind |-> "none", id |-> row.id, price |-> 0, total |-> 0]
CancelStmt(row) == [kind |-> "CANCELLED", id |-> row.id, price |-> 0, total |-> 0]
ExecuteStmt(row, current_price) ==
    [kind |-> "EXECUTED", id |-> row.id, price |-> current_price,
     total |-> current_price * row.quantity]

DecideNoContinue(row, q, t) ==
    IF q.ok /\ BidMet(row, q.lastPrice) THEN ExecuteStmt(row, q.lastPrice)
    ELSE IF AfterClose(t) THEN CancelStmt(row)
    ELSE NoStmt(row)

\* the statement the loop body executes for a row, "none" when it executes none
Decide(row, q, t) ==
    IF ~q.ok THEN NoStmt(row)
    ELSE IF BidMet(row, q.lastPrice) THEN ExecuteStmt(row, q.lastPrice)
    ELSE IF AfterClose(t) THEN CancelStmt(row)
    ELSE NoStmt(row)

\* one iteration of the loop; an UPDATE waits for the write lock, which the
\* connection then keeps until its COMMIT
ProcessRow(s) ==
    /\ pc[s] = "loop"
    /\ idx[s] <= Len(df_pending[s])
    /\ \E q \in Quotes :
          LET row == df_pending[s][idx[s]]
              stmt == Decide(row, q, now[s])
          IN  /\ last' = [last EXCEPT ![s] = q]
              /\ IF stmt.kind = "none"
                 THEN UNCHANGED <<tx, lock>>
                 ELSE /\ lock \subseteq {s}
                      /\ lock' = {s}
                      /\ tx' = [tx EXCEPT ![s] = Append(@, stmt)]
    /\ idx' = [idx EXCEPT ![s] = @ + 1]
    /\ UNCHANGED <<ledger, pc, df_pending, now, args, result, clock, shown, schemaVars>>

ApplyStmtPriceOnly(r, stmt) ==
    IF stmt.kind = "EXECUTED"
    THEN [r EXCEPT !.status = "EXECUTED", !.price = stmt.price]
    ELSE [r EXCEPT !.status = "CANCELLED"]

\* UPDATE transactions SET ... WHERE id=?
ApplyStmt(r, stmt) ==
    IF stmt.kind = "EXECUTED"
    THEN [r EXCEPT !.status = "EXECUTED", !.price = stmt.price, !.total = stmt.total]
    ELSE [r EXCEPT !.status = "CANCELLED"]

RECURSIVE ApplyTxNoWhere(_, _)
ApplyTxNoWhere(db, stmts) ==
    IF stmts = <<>> THEN db
    ELSE ApplyTxNoWhere([i \in 1..Len(db) |-> ApplyStmt(db[i], Head(stmts))],
                        Tail(stmts))

RECURSIVE ApplyTx(_, _)
ApplyTx(db, stmts) ==
    IF stmts = <<>> THEN db
    ELSE LET st == Head(stmts)
             db1 == [i \in 1..Len(db) |->
                        IF db[i].id = st.id THEN ApplyStmt(db[i], st) ELSE db[i]]
         IN  ApplyTx(db1, Tail(stmts))

ResetSweep(s) ==
    /\ df_pending' = [df_pending EXCEPT ![s] = <<>>]
    /\ now' = [now EXCEPT ![s] = 0]
    /\ idx' = [idx EXCEPT ![s] = 0]
    /\ last' = [last EXCEPT ![s] = Unavailable]
    /\ tx' = [tx EXCEPT ![s] = <<>>]

\* conn.commit() and conn.close() after the loop
Commit(s) ==
    /\ pc[s] = "loop"
    /\ idx[s] > Len(df_pending[s])
    /\ ledger' = ApplyTx(ledger, tx[s])
    /\ lock' = lock \ {s}
    /\ pc' = [pc EXCEPT ![s] = "page"]
    /\ ResetSweep(s)
    /\ UNCHANGED <<args, result, clock, shown, schemaVars>>

\* ------------------------------------------------- failures of the store
\* an UPDATE that finds the write lock held by another connection until its
\* busy timeout ends: the loop's except clause skips the row
UpdateBusy(s) ==
    /\ pc[s] = "loop"
    /\ idx[s] <= Len(df_pending[s])
    /\ lock # {}
    /\ s \notin lock
    /\ \E q \in Quotes :
          /\ Decide(df_pending[s][idx[s]], q, now[s]).kind # "none"
          /\ last' = [last EXCEPT ![s] = q]
    /\ idx' = [idx EXCEPT ![s] = @ + 1]
    /\ UNCHANGED <<ledger, lock, pc, df_pending, now, tx, args, result, clock, shown,
                   schemaVars>>

\* conn.commit() raises: nothing catches it, the transaction is rolled back
\* with the connection and the script run ends in the exception
CommitFails(s) ==
    /\ pc[s] = "loop"
    /\ idx[s] > Len(df_pending[s])
    /\ tx[s] # <<>>
    /\ lock' = lock \ {s}
    /\ pc' = [pc EXCEPT ![s] = "raised"]
    /\ result' = [result EXCEPT ![s] = "OperationalError"]
    /\ ResetSweep(s)
    /\ UNCHANGED <<ledger, args, clock, shown, schemaVars>>

\* record_trade's INSERT finds the write lock held until its busy timeout
\* ends: the except clause rolls back and shows the error
InsertBusy(s) ==
    /\ pc[s] = "insert"
    /\ lock # {}
    /\ pc' = [pc EXCEPT ![s] = "done"]
    /\ result' = [result EXCEPT ![s] = "FailedToRecord"]
    /\ args' = [args EXCEPT ![s] = NoArgs]
    /\ UNCHANGED <<ledger, lock, sweepVars, clock, shown, schemaVars>>

\* ------------------------------------------------------------------ pages
\* the Transaction History page displays the frame the query returned
History(s) ==
    /\ pc[s] = "page"
    /\ \E df \in fetch_transactions(ledger, Admin) :
          shown' = [page |-> "History", username |-> Admin, frame |-> df]
    /\ pc' = [pc EXCEPT ![s] = "idle"]
    /\ UNCHANGED <<ledger, lock, sweepVars, args, result, clock, schemaVars>>

\* fetch_holdings(username) for the Portfolio page
Portfolio(username) ==
    /\ \E holdings \in fetch_holdings(ledger, username) :
          shown' = [page |-> "Portfolio", username |-> username, frame |-> holdings]
    /\ UNCHANGED <<ledger, lock, pc, sweepVars, args, result, clock, schemaVars>>

\* a second of the wall clock passes
Tick ==
    /\ clock < MaxClock
    /\ clock' = clock + 1
    /\ UNCHANGED <<ledger, lock, pc, sweepVars, args, result, shown, schemaVars>>

\* record_trade called with any numbers
SubmitAny(s) ==
    SubmitFrom(s, SoloRows, SoloSymbols, RawQuantities, SoloRefPrices, SoloBidPrices)

\* ----------------------------------------------------------------- init_db
\* CREATE TABLE IF NOT EXISTS: the columns of the table afterwards
CreateTable(c) == IF c = {} THEN BaseCols ELSE c

AddColumnDropRows(db, col, default) == <<>>

\* ALTER TABLE transactions ADD COLUMN: every row gets the column's default
AddColumn(db, col, default) ==
    [i \in 1..Len(db) |->
        [f \in (DOMAIN db[i]) \cup {col} |-> IF f = col THEN default ELSE db[i][f]]]

\* init_db on a table of columns c and rows db when the ALTERs of the columns
\* in failed raise: each missing column is tried, a failure is warned about
init_db(c, db, failed) ==
    LET found == CreateTable(c)
        added == (AllCols \ found) \ failed
        db1 == IF "bid_price" \in added THEN AddColumn(db, "bid_price", Null) ELSE db
        db2 == IF "status" \in added THEN AddColumn(db1, "status", "EXECUTED") ELSE db1
    IN  [cols |-> found \cup added, rows |-> db2, warnings |-> (AllCols \ found) \cap failed]

\* a script run's call of init_db; any of its ALTERs may raise
InitDb ==
    /\ \E failed \in SUBSET (AllCols \ BaseCols) :
          LET after == init_db(cols, ledger, failed)
          IN  /\ cols' = after.cols
              /\ ledger' = after.rows
              /\ warnings' = after.warnings
    /\ UNCHANGED <<lock, pc, sweepVars, args, result, clock, shown>>

\* ------------------------------------------------------------ specification
\* no script run has begun
InitSessions ==
    /\ lock = {}
    /\ pc = [s \in Sessions |-> "idle"]
    /\ df_pending = [s \in Sessions |-> <<>>]
    /\ now = [s \in Sessions |-> 0]
    /\ idx = [s \in Sessions |-> 0]
    /\ last = [s \in Sessions |-> Unavailable]
    /\ tx = [s \in Sessions |-> <<>>]
    /\ args = [s \in Sessions |-> NoArgs]
    /\ result = [s \in Sessions |-> "none"]
    /\ clock = 0
    /\ shown = NoPage
    /\ warnings = {}

\* init_db has created the table, no order has been placed
Init ==
    /\ ledger = <<>>
    /\ cols = AllCols
    /\ InitSessions

Next ==
    \E s \in Sessions :
        \/ SweepBegin(s)
        \/ ProcessRow(s)
        \/ Commit(s)
        \/ Submit(s)
        \/ Insert(s)
        \/ Render(s)
        \/ Rerun(s)

\* the store always answers: a writer waits for the lock and gets it
Spec == Init /\ [][Next]_vars

NextFaults ==
    \/ Next
    \/ \E s \in Sessions :
        \/ UpdateBusy(s)
        \/ CommitFails(s)
        \/ InsertBusy(s)

\* the store may also fail: busy timeouts and a failing COMMIT
SpecFaults == Init /\ [][NextFaults]_vars

\* one session, record_trade called with any numbers, the wall clock advancing
NextSolo ==
    \/ Tick
    \/ \E s \in Traders :
        \/ SweepBegin(s)
        \/ ProcessRow(s)
        \/ Commit(s)
        \/ SubmitAny(s)
        \/ Insert(s)
        \/ History(s)
        \/ Rerun(s)

SpecSolo == Init /\ [][NextSolo]_vars

\* a stored row: the INSERT of record_trade gives bid_price and status
StoredRow(i, username, sym, act, lot, status) ==
    [id |-> i,
     username |-> username,
     stock_symbol |-> sym,
     action |-> act,
     quantity |-> lot.quantity,
     price |-> lot.price,
     total |-> lot.quantity * lot.price,
     bid_price |-> IF status = "EXECUTED" THEN lot.price ELSE lot.price + Tol,
     status |-> status,
     timestamp |-> 0]

StoredRowsAt(i) ==
    {StoredRow(i, u, sym, act, lot, st) :
        u \in Users, sym \in Symbols, act \in Actions, lot \in Lots, st \in Statuses}

\* the ledgers of at most n rows, row i having id i
StoredLedgers(n) ==
    UNION {{db \in [1..k -> UNION {StoredRowsAt(i) : i \in 1..k}] :
               \A i \in 1..k : db[i].id = i} : k \in 0..n}

\* fetch_holdings applied to any stored ledger, for any user
InitHoldings ==
    /\ ledger \in StoredLedgers(HoldingsRows)
    /\ cols = AllCols
    /\ InitSessions

NextHoldings == \E username \in Users : Portfolio(username)

SpecHoldings == InitHoldings /\ [][NextHoldings]_vars

\* the tables init_db may find: none, the base table, the base table with one
\* of the two later columns, the current table
SchemaStates ==
    {{}, BaseCols, BaseCols \cup {"bid_price"}, BaseCols \cup {"status"}, AllCols}

\* the rows of a table of columns c: stored rows of one user and symbol
\* without the columns the table lacks
RowsOfSchema(c, n) ==
    {[i \in 1..Len(db) |-> [f \in c |-> db[i][f]]] :
        db \in {d \in StoredLedgers(n) :
                   \A i \in 1..Len(d) :
                       /\ d[i].username = Admin
                       /\ d[i].stock_symbol \in SoloSymbols
                       /\ d[i].quantity = 1}}

InitSchema ==
    /\ cols \in SchemaStates
    /\ ledger \in (IF cols = {} THEN {<<>>} ELSE RowsOfSchema(cols, SchemaRows))
    /\ InitSessions

SpecSchema == InitSchema /\ [][InitDb]_vars

\* the Trade page's call with orders of one share of one symbol
SubmitLive(s) ==
    SubmitFrom(s, MaxRows, SoloSymbols, LiveRawQuantities, RefPrices, LiveBidPrices)

\* both sessions, orders of one share of one symbol, the store always answers
NextLive ==
    \E s \in Sessions :
        \/ SweepBegin(s)
        \/ ProcessRow(s)
        \/ Commit(s)
        \/ SubmitLive(s)
        \/ Insert(s)
        \/ Render(s)
        \/ Rerun(s)

\* script runs keep coming and each goes on to its end; again and again a run
\* begins its sweep at or after the close, and a row that such sweeps reach
\* again and again gets its quote
Fairness ==
    \A s \in Sessions :
        /\ WF_vars(SweepBegin(s))
        /\ WF_vars(ProcessRow(s))
        /\ WF_vars(Commit(s))
        /\ WF_vars(Insert(s))
        /\ WF_vars(Render(s))
        /\ WF_vars(Rerun(s))
        /\ SF_vars(SweepBegin(s) /\ now'[s] >= MarketClose)
        /\ \A i \in 1..MaxRows :
              SF_vars(/\ ProcessRow(s)
                      /\ df_pending[s][idx[s]].id = i
                      /\ now[s] >= MarketClose
                      /\ last'[s].ok)

SpecLive == Init /\ [][NextLive]_vars /\ Fairness

\* ---------------------------------------------------------------- claims
\* the steps of the script the claims speak of
SubmitStep(s) == pc[s] = "page" /\ pc'[s] \in {"done", "insert", "raised"}
InsertStep(s) == pc[s] = "insert" /\ Len(ledger') # Len(ledger)
ProcessStep(s) == pc[s] = "loop" /\ idx'[s] = idx[s] + 1
SweepEnd(s) == pc[s] = "loop" /\ pc'[s] # "loop"

Terminal(r) == r.status \in {"EXECUTED", "CANCELLED"}

\* the position derived from the ledger: signed sum over the user's EXECUTED
\* rows of the symbol
RECURSIVE ExecutedQty(_, _, _)
ExecutedQty(db, username, sym) ==
    IF db = <<>> THEN 0
    ELSE LET r == db[Len(db)]
             rest == ExecutedQty(SubSeq(db, 1, Len(db) - 1), username, sym)
         IN  IF r.username = username /\ r.stock_symbol = sym /\ r.status = "EXECUTED"
             THEN (IF r.action = "BUY" THEN rest + r.quantity ELSE rest - r.quantity)
             ELSE rest

HasExecuted(db, username, sym) ==
    \E i \in 1..Len(db) :
        /\ db[i].username = username
        /\ db[i].stock_symbol = sym
        /\ db[i].status = "EXECUTED"

HasExecutedBuy(db, username, sym) ==
    \E i \in 1..Len(db) :
        /\ db[i].username = username
        /\ db[i].stock_symbol = sym
        /\ db[i].status = "EXECUTED"
        /\ db[i].action = "BUY"

\* C1: a row's status changes only from PENDING to EXECUTED or from PENDING to
\* CANCELLED, whatever the interleaving of submits and sweeps; a row that is
\* EXECUTED or CANCELLED keeps its status.
C1_StatusOnlyLeavesPending ==
    [][\A i \in 1..Len(ledger) :
          ledger'[i].status # ledger[i].status
              => /\ ledger[i].status = "PENDING"
                 /\ ledger'[i].status \in {"EXECUTED", "CANCELLED"}]_vars

\* C2: settlement is exactly-once: no field of a row that is EXECUTED or
\* CANCELLED is written again by a later update, also when two sweeps overlap.
C2_SettledRowNeverRewritten ==
    [][\A i \in 1..Len(ledger) : Terminal(ledger[i]) => ledger'[i] = ledger[i]]_vars

\* C3: when the user has an EXECUTED row of the symbol, a SELL of a valid
\* quantity that exceeds the position derived from the EXECUTED rows alone is
\* rejected with InsufficientHoldings and no row is written for it: the ledger
\* is unchanged by the call and rows are appended only by accepted calls.
C3_OversellRejected ==
    [][\A s \in Sessions :
          /\ SubmitStep(s)
                => LET a == args'[s]
                   IN  (/\ a.action = "SELL"
                        /\ a.quantity > 0
                        /\ HasExecuted(ledger, Admin, a.stock_symbol)
                        /\ a.quantity > ExecutedQty(ledger, Admin, a.stock_symbol))
                           => /\ pc'[s] = "done"
                              /\ result'[s] = "InsufficientHoldings"
                              /\ ledger' = ledger
          /\ (pc[s] = "done" /\ result[s] = "InsufficientHoldings")
                => (pc'[s] \in {"done", "idle"} /\ (pc'[s] = "done" => result'[s] = result[s]))
          /\ Len(ledger') > Len(ledger) => \E t \in Sessions : pc[t] = "insert"]_vars

\* C3 witness: a SELL of more than the executed position was rejected while a
\* PENDING BUY of the same symbol was outstanding.
C3_Witness ==
    \E s \in Sessions :
        /\ pc[s] = "done"
        /\ result[s] = "InsufficientHoldings"
        /\ args[s].action = "SELL"
        /\ HasExecuted(ledger, Admin, args[s].stock_symbol)
        /\ args[s].quantity > ExecutedQty(ledger, Admin, args[s].stock_symbol)
        /\ \E i \in 1..Len(ledger) :
              /\ ledger[i].stock_symbol = args[s].stock_symbol
              /\ ledger[i].action = "BUY"
              /\ ledger[i].status = "PENDING"
              /\ ledger[i].quantity + ExecutedQty(ledger, Admin, args[s].stock_symbol)
                    >= args[s].quantity

\* C4: a SELL of a valid quantity of a symbol without EXECUTED BUY history,
\* also on an empty ledger or one with only PENDING or CANCELLED rows, ends in
\* the structured result InsufficientHoldings, never in a raw exception, and
\* leaves the ledger unchanged.
C4_NoHistoryIsStructured ==
    [][\A s \in Sessions :
          SubmitStep(s)
             => LET a == args'[s]
                IN  (/\ a.action = "SELL"
                     /\ a.quantity > 0
                     /\ ~HasExecutedBuy(ledger, Admin, a.stock_symbol))
                        => /\ pc'[s] = "done"
                           /\ result'[s] = "InsufficientHoldings"
                           /\ ledger' = ledger]_vars

\* C5: the row a submit stores is EXECUTED exactly when the reference price and
\* the bid differ by less than 0.01 in either direction, PENDING otherwise, for
\* BUY and SELL alike, and never CANCELLED; it stores the call's prices.
C5_InitialStatusByTolerance ==
    [][\A s \in Sessions :
          InsertStep(s)
             => LET r == ledger'[Len(ledger')]
                    near == /\ args[s].price - args[s].bid_price < Tol
                            /\ args[s].bid_price - args[s].price < Tol
                IN  /\ r.price = args[s].price
                    /\ r.bid_price = args[s].bid_price
                    /\ r.action = args[s].action
                    /\ near => r.status = "EXECUTED"
                    /\ ~near => r.status = "PENDING"]_vars

\* C5 witness: a stored order executed at once although its bid differs from
\* the reference price (by less than the tolerance), beside a PENDING order.
C5_Witness ==
    /\ Len(ledger) = 2
    /\ ledger[1].status = "PENDING"
    /\ ledger[1].bid_price > ledger[1].price
    /\ ledger[2].status = "EXECUTED"
    /\ ledger[2].bid_price < ledger[2].price
    /\ ledger[2].price \in RefPrices
    /\ \E s \in Sessions : pc[s] = "done" /\ result[s] = "Executed"

\* C6: a successful submit appends exactly one row and changes no other row;
\* a submit rejected as InvalidInput or InsufficientHoldings changes nothing
\* and is never followed by an INSERT of that call.
C6_SubmitFrame ==
    [][\A s \in Sessions :
          /\ (pc[s] = "insert" /\ pc'[s] = "done" /\ result'[s] \in {"Executed", "Pending"})
                => /\ Len(ledger') = Len(ledger) + 1
                   /\ \A i \in 1..Len(ledger) : ledger'[i] = ledger[i]
                   /\ ledger'[Len(ledger')].id = Len(ledger')
          /\ SubmitStep(s) => ledger' = ledger
          /\ (SubmitStep(s) /\ pc'[s] = "done")
                => result'[s] \in {"InvalidInput", "InsufficientHoldings"}
          /\ (pc[s] = "done" /\ result[s] \in {"InvalidInput", "InsufficientHoldings"})
                => pc'[s] \in {"done", "idle"}
          /\ Len(ledger') # Len(ledger) => \E t \in Sessions : pc[t] = "insert"]_vars

\* C6 witness: a row was appended to a ledger that already held one, and the
\* call reported success.
C6_Witness ==
    /\ Len(ledger) = 2
    /\ \E s \in Sessions : pc[s] = "done" /\ result[s] = "Pending"

\* the row of the sweep's snapshot that the loop handles in this step
CurrentRow(s) == df_pending[s][idx[s]]

StmtIds(stmts) == {stmts[k].id : k \in 1..Len(stmts)}

\* C7: for a row read as PENDING whose quote p is available, the sweep executes
\* UPDATE status=EXECUTED, price=p, total=p*quantity exactly when (BUY and
\* p <= bid) or (SELL and p >= bid), before or after the close; its commit
\* writes exactly that to the row, and makes no other row EXECUTED.
C7_ExecutesExactlyWhenBidMet ==
    [][\A s \in Sessions :
          /\ (ProcessStep(s) /\ last'[s].ok)
                => LET row == CurrentRow(s)
                       p == last'[s].lastPrice
                       met == \/ row.action = "BUY" /\ p <= row.bid_price
                              \/ row.action = "SELL" /\ p >= row.bid_price
                       upd == [kind |-> "EXECUTED", id |-> row.id, price |-> p,
                               total |-> p * row.quantity]
                   IN  met <=> tx'[s] = Append(tx[s], upd)
          /\ SweepEnd(s)
                => \A i \in 1..Len(ledger) :
                      /\ \A k \in 1..Len(tx[s]) :
                            (tx[s][k].id = i /\ tx[s][k].kind = "EXECUTED")
                               => ledger'[i] = [ledger[i] EXCEPT
                                                   !.status = "EXECUTED",
                                                   !.price = tx[s][k].price,
                                                   !.total = tx[s][k].total]
                      /\ (~\E k \in 1..Len(tx[s]) :
                              tx[s][k].id = i /\ tx[s][k].kind = "EXECUTED")
                            => (ledger'[i].status = "EXECUTED"
                                   => ledger'[i] = ledger[i])]_vars

\* C7 witness: a committed sweep has executed a BUY at a quote equal to its
\* bid, the row carrying that price and total, and a sweep that read the clock
\* at the close has executed the UPDATE that executes a SELL.
C7_Witness ==
    /\ \E i \in 1..Len(ledger) :
          /\ ledger[i].action = "BUY"
          /\ ledger[i].status = "EXECUTED"
          /\ ledger[i].price = ledger[i].bid_price
          /\ ledger[i].price \notin RefPrices
          /\ ledger[i].total = ledger[i].price * ledger[i].quantity
          /\ ledger[i].quantity = 2
    /\ \E s \in Sessions :
          /\ pc[s] = "loop"
          /\ now[s] >= MarketClose
          /\ Len(tx[s]) = 1
          /\ tx[s][1].kind = "EXECUTED"
          /\ ledger[tx[s][1].id].action = "SELL"
          /\ ledger[tx[s][1].id].status = "PENDING"

\* C8: for a row read as PENDING whose available quote does not meet the bid,
\* a sweep at or after the close executes UPDATE status=CANCELLED, which its
\* commit applies leaving price and total as they were; a sweep before the
\* close executes nothing for the row and leaves it as it is.
C8_CancelsOnlyAfterClose ==
    [][\A s \in Sessions :
          /\ (ProcessStep(s) /\ last'[s].ok)
                => LET row == CurrentRow(s)
                       p == last'[s].lastPrice
                       met == \/ row.action = "BUY" /\ p <= row.bid_price
                              \/ row.action = "SELL" /\ p >= row.bid_price
                       upd == [kind |-> "CANCELLED", id |-> row.id, price |-> 0,
                               total |-> 0]
                   IN  ~met => /\ now[s] >= MarketClose => tx'[s] = Append(tx[s], upd)
                               /\ now[s] < MarketClose => tx'[s] = tx[s]
          /\ SweepEnd(s)
                => \A i \in 1..Len(ledger) :
                      /\ \A k \in 1..Len(tx[s]) :
                            (tx[s][k].id = i /\ tx[s][k].kind = "CANCELLED")
                               => ledger'[i] = [ledger[i] EXCEPT !.status = "CANCELLED"]
                      /\ i \notin StmtIds(tx[s]) => ledger'[i] = ledger[i]
          /\ ProcessStep(s) => ledger' = ledger]_vars

\* C8 witness: a sweep at the close cancelled an order whose quote did not meet
\* the bid; the row keeps the price and total it was stored with.
C8_Witness ==
    \E i \in 1..Len(ledger) :
        /\ ledger[i].status = "CANCELLED"
        /\ ledger[i].price \in RefPrices
        /\ ledger[i].total = ledger[i].price * ledger[i].quantity
        /\ \E s \in Sessions : pc[s] = "page"

\* C9: a row whose quote is unavailable gets no UPDATE, also at or after the
\* close: the step changes neither the ledger nor the transaction and the loop
\* goes on to the next row; the statements of the other rows are neither
\* revised nor dropped, each names its own row, and the commit leaves a row
\* without a statement exactly as it was.
C9_UnavailableSkipsOnlyThatRow ==
    [][\A s \in Sessions :
          /\ (ProcessStep(s) /\ ~last'[s].ok)
                => /\ tx'[s] = tx[s]
                   /\ ledger' = ledger
                   /\ lock' = lock
                   /\ pc'[s] = "loop"
                   /\ df_pending'[s] = df_pending[s]
                   /\ now'[s] = now[s]
          /\ ProcessStep(s)
                => \/ tx'[s] = tx[s]
                   \/ /\ Len(tx'[s]) = Len(tx[s]) + 1
                      /\ SubSeq(tx'[s], 1, Len(tx[s])) = tx[s]
                      /\ tx'[s][Len(tx'[s])].id = CurrentRow(s).id
          /\ SweepEnd(s)
                => /\ idx[s] = Len(df_pending[s]) + 1
                   /\ \A i \in 1..Len(ledger) :
                         i \notin StmtIds(tx[s]) => ledger'[i] = ledger[i]]_vars

\* C9 witness: in a sweep at the close over two PENDING rows the first row's
\* quote was unavailable and got no statement, the second row got its own.
C9_Witness ==
    \E s \in Sessions :
        /\ pc[s] = "loop"
        /\ now[s] >= MarketClose
        /\ Len(df_pending[s]) = 2
        /\ idx[s] = 3
        /\ Len(tx[s]) = 1
        /\ tx[s][1].id = df_pending[s][2].id
        /\ ledger[df_pending[s][1].id].status = "PENDING"

\* C10: each transition a sweep decided is applied on its own: when the sweep
\* ends, every UPDATE it executed is in the ledger and the sweep has not ended
\* in an exception, although the write of some row may have failed.
C10_TransitionsAppliedIndependently ==
    [][\A s \in Sessions :
          SweepEnd(s)
             => /\ pc'[s] # "raised"
                /\ \A k \in 1..Len(tx[s]) :
                      ledger'[tx[s][k].id].status = tx[s][k].kind]_vars

\* C11: in every state a reader can observe, every ledger row has
\* total = quantity * price: a row stored by a submit, a row a sweep executed
\* (price and total are written by the one UPDATE and shown by the one
\* commit) and a row a sweep cancelled.
C11_TotalIsQuantityTimesPrice ==
    \A i \in 1..Len(ledger) : ledger[i].total = ledger[i].quantity * ledger[i].price

\* C11 witness: a reader sees a row of two shares that a sweep executed at a
\* price other than the one it was stored with.
C11_Witness ==
    \E i \in 1..Len(ledger) :
        /\ ledger[i].status = "EXECUTED"
        /\ ledger[i].quantity = 2
        /\ ledger[i].price \notin RefPrices
        /\ ledger[i].bid_price # ledger[i].price
        /\ \E s \in Sessions : pc[s] = "page"

\* the cost and the number of the shares bought: sums over the user's
\* EXECUTED BUY rows of the symbol
RECURSIVE ExecutedBuyCost(_, _, _)
ExecutedBuyCost(db, username, sym) ==
    IF db = <<>> THEN 0
    ELSE LET r == db[Len(db)]
             rest == ExecutedBuyCost(SubSeq(db, 1, Len(db) - 1), username, sym)
         IN  IF /\ r.username = username /\ r.stock_symbol = sym
                /\ r.status = "EXECUTED" /\ r.action = "BUY"
             THEN rest + r.quantity * r.price
             ELSE rest

RECURSIVE ExecutedBuyQty(_, _, _)
ExecutedBuyQty(db, username, sym) ==
    IF db = <<>> THEN 0
    ELSE LET r == db[Len(db)]
             rest == ExecutedBuyQty(SubSeq(db, 1, Len(db) - 1), username, sym)
         IN  IF /\ r.username = username /\ r.stock_symbol = sym
                /\ r.status = "EXECUTED" /\ r.action = "BUY"
             THEN rest + r.quantity
             ELSE rest

\* the ledger with its rows stored in another order
Reordered(db) == {[i \in 1..Len(db) |-> db[p[i]]] : p \in Permutations(Len(db))}

\* the user's EXECUTED rows alone
OwnExecuted(db, username) ==
    SelectSeq(db, LAMBDA r : r.username = username /\ r.status = "EXECUTED")

\* C12: for every user and every ledger, the holdings frame has exactly the
\* symbols with an EXECUTED row of the user; a symbol's quantity is the BUY
\* quantities minus the SELL quantities of the user's EXECUTED rows, its
\* average price is cost over number of the shares of the EXECUTED BUY rows, 0
\* when there are none; the frame is the same for every order of the rows and
\* for the ledger without PENDING rows, CANCELLED rows and other users' rows.
C12_HoldingsAreSignedSumAndBuyAverage ==
    shown.page = "Portfolio"
        => LET u == shown.username
               h == shown.frame
           IN  /\ DOMAIN h = {sym \in Symbols : HasExecuted(ledger, u, sym)}
               /\ \A sym \in DOMAIN h :
                     LET avg == AvgPrice(h[sym])
                     IN  /\ h[sym].Quantity = ExecutedQty(ledger, u, sym)
                         /\ avg.den # 0
                         /\ IF HasExecutedBuy(ledger, u, sym)
                            THEN avg.num * ExecutedBuyQty(ledger, u, sym)
                                    = ExecutedBuyCost(ledger, u, sym) * avg.den
                            ELSE avg.num = 0
               /\ \A db \in Reordered(ledger) : fetch_holdings(db, u) = {h}
               /\ fetch_holdings(OwnExecuted(ledger, u), u) = {h}

\* C12 witness: the frame shows a position of one share, bought at an average
\* of 6/2, for a ledger of an EXECUTED BUY of two and an EXECUTED SELL of one.
C12_Witness ==
    /\ shown.page = "Portfolio"
    /\ Len(ledger) = 2
    /\ ledger[2].action = "SELL"
    /\ \E sym \in DOMAIN shown.frame :
          /\ shown.frame[sym].Quantity = 1
          /\ AvgPrice(shown.frame[sym]) = [num |-> 6, den |-> 2]

\* C13: an UPDATE of the sweeper that the store accepts into the sweep's
\* transaction targets a row that is PENDING when the UPDATE is executed; an
\* UPDATE for a row that has meanwhile left PENDING is refused and changes
\* nothing.
C13_StaleUpdateRefused ==
    [][\A s \in Sessions :
          (ProcessStep(s) /\ ledger[CurrentRow(s).id].status # "PENDING")
             => tx'[s] = tx[s]]_vars

\* C14: a submit whose quantity is not a positive whole number, or whose
\* reference price or bid is negative, ends in InvalidInput and leaves the
\* ledger unchanged; every ledger row has quantity > 0, price >= 0 and
\* bid_price >= 0.
C14_InvalidInputRejected ==
    [][/\ \A s \in Sessions :
            SubmitStep(s)
               => LET a == args'[s]
                  IN  (\/ a.raw <= 0
                       \/ a.raw % 2 # 0
                       \/ a.price < 0
                       \/ a.bid_price < 0)
                         => /\ pc'[s] = "done"
                            /\ result'[s] = "InvalidInput"
                            /\ ledger' = ledger
       /\ \A i \in 1..Len(ledger') :
            /\ ledger'[i].quantity > 0
            /\ ledger'[i].price >= 0
            /\ ledger'[i].bid_price >= 0]_vars

\* C15: a submit that has passed validation stays with its INSERT until the
\* row is appended and success is reported: a conflict on the write lock is
\* never shown to the user as a failed trade and never loses the row.
C15_LockConflictNeverSurfaced ==
    [][\A s \in Sessions :
          pc[s] = "insert"
             => \/ pc'[s] = "insert"
                \/ /\ Len(ledger') = Len(ledger) + 1
                   /\ result'[s] \in {"Executed", "Pending"}]_vars

\* C16: the history page shows exactly the user's rows, each once, a row
\* appended later before a row appended earlier, also when both were appended
\* within the same second.
C16_HistoryNewestFirst ==
    shown.page = "History"
        => LET df == shown.frame
               own == {i \in 1..Len(ledger) : ledger[i].username = shown.username}
           IN  /\ Len(df) = Cardinality(own)
               /\ {df[k] : k \in 1..Len(df)} = {ledger[i] : i \in own}
               /\ \A j, k \in 1..Len(df) : j < k => df[j].id > df[k].id

\* the fields of a row that no sweep and no submit ever changes
SameIdentity(r1, r2) ==
    /\ r1.id = r2.id
    /\ r1.username = r2.username
    /\ r1.stock_symbol = r2.stock_symbol
    /\ r1.action = r2.action
    /\ r1.quantity = r2.quantity
    /\ r1.bid_price = r2.bid_price
    /\ r1.timestamp = r2.timestamp

\* a step of the sweep of session s: its SELECT, an iteration, its end
SweepStep(s) ==
    \/ pc[s] = "idle" /\ pc'[s] # "idle"
    \/ ProcessStep(s)
    \/ SweepEnd(s)

\* C18: the SELL check of record_trade keeps positions non-negative: in every
\* reachable state whose rows were stored with non-negative prices and bids,
\* the signed sum of the EXECUTED rows of every symbol of the user is >= 0,
\* also after sweeps have executed several PENDING SELL orders of one symbol.
C18_PositionsNeverNegative ==
    (\A i \in 1..Len(ledger) : ledger[i].price >= 0 /\ ledger[i].bid_price >= 0)
        => \A sym \in Symbols : ExecutedQty(ledger, Admin, sym) >= 0

\* C19: no step changes a row's id, username, symbol, action, quantity, bid or
\* timestamp; a step of a sweep leaves the number of rows as it is and changes
\* only rows its SELECT read as PENDING, and of those only at its commit; the
\* ledger grows by one row at a time and only by the INSERT of a submit.
C19_SweepFrame ==
    [][/\ Len(ledger') >= Len(ledger)
       /\ \A i \in 1..Len(ledger) : SameIdentity(ledger[i], ledger'[i])
       /\ Len(ledger') # Len(ledger)
             => /\ Len(ledger') = Len(ledger) + 1
                /\ \E t \in Sessions : pc[t] = "insert" /\ pc'[t] = "done"
       /\ \A s \in Sessions :
             SweepStep(s)
                => /\ Len(ledger') = Len(ledger)
                   /\ ~SweepEnd(s) => ledger' = ledger
                   /\ \A i \in 1..Len(ledger) :
                         ledger'[i] # ledger[i]
                            => \E k \in 1..Len(df_pending[s]) :
                                  /\ df_pending[s][k].id = i
                                  /\ df_pending[s][k].status = "PENDING"]_vars

\* C19 witness: a sweep has committed the cancellation of the second row
\* beside a first row that was EXECUTED when it was stored and still is as it
\* was stored.
C19_Witness ==
    /\ Len(ledger) = 2
    /\ ledger[1].status = "EXECUTED"
    /\ ledger[1].price \in RefPrices
    /\ ledger[1].bid_price = ledger[1].price
    /\ ledger[2].status = "CANCELLED"
    /\ ledger[2].stock_symbol = ledger[1].stock_symbol
    /\ \A s \in Sessions : pc[s] = "page"

\* C17: init_db called with no failing ALTER gives the current columns, and
\* called again on its result gives the same columns and rows; no call
\* removes a column or a row or changes a value a row had; each column that
\* is missing is added or warned about, whatever happened to the other, and
\* the call returns.
C17_InitDbIdempotentAndNonDestructive ==
    /\ [](LET once == init_db(cols, ledger, {})
              twice == init_db(once.cols, once.rows, {})
          IN  /\ once.cols = AllCols
              /\ twice.cols = once.cols
              /\ twice.rows = once.rows
              /\ cols = AllCols => once.rows = ledger)
    /\ [][/\ cols \subseteq cols'
          /\ Len(ledger') = Len(ledger)
          /\ \A i \in 1..Len(ledger) : \A f \in cols : ledger'[i][f] = ledger[i][f]
          /\ \A i \in 1..Len(ledger') : DOMAIN ledger'[i] = cols'
          /\ \A c \in AllCols : c \in cols' \/ c \in warnings'
          /\ warnings' \cap cols' = {}]_vars

\* C17 witness: a call on a base table of two rows has failed to add
\* bid_price, has warned about it, and has added status to both rows.
C17_Witness ==
    /\ cols = BaseCols \cup {"status"}
    /\ warnings = {"bid_price"}
    /\ Len(ledger) = 2
    /\ \A i \in 1..Len(ledger) : ledger[i].status = "EXECUTED"
    /\ ledger[1].action # ledger[2].action

\* C20: under the fairness of the script runs, every PENDING row is
\* eventually EXECUTED or CANCELLED; a sweep at or after the close executes
\* an UPDATE for every row whose quote is available, and its commit leaves
\* every row it updated EXECUTED or CANCELLED.
C20_PendingEventuallySettled ==
    /\ \A i \in 1..MaxRows :
          (Len(ledger) >= i /\ ledger[i].status = "PENDING")
             ~> (Len(ledger) >= i /\ ledger[i].status \in {"EXECUTED", "CANCELLED"})
    /\ [][\A s \in Sessions :
             /\ (ProcessStep(s) /\ last'[s].ok /\ now[s] >= MarketClose)
                   => CurrentRow(s).id \in StmtIds(tx'[s])
             /\ SweepEnd(s)
                   => /\ pc'[s] = "page"
                      /\ \A id \in StmtIds(tx[s]) :
                            ledger'[id].status \in {"EXECUTED", "CANCELLED"}]_vars

\* C20 witness: both rows were stored PENDING and sweeps have settled both,
\* one by executing it at a quote, one by cancelling it at the close.
C20_Witness ==
    /\ Len(ledger) = 2
    /\ \E i, j \in 1..2 :
          /\ ledger[i].status = "CANCELLED"
          /\ ledger[j].status = "EXECUTED"
          /\ ledger[j].price \notin RefPrices
          /\ \A k \in {i, j}, p \in RefPrices :
                InitialStatus(p, ledger[k].bid_price) = "PENDING"
    /\ \A s \in Sessions : pc[s] = "page"

TypeOK ==
    /\ \A i \in 1..Len(ledger) : ledger[i].id = i
    /\ Cardinality(lock) <= 1
====
